---- MODULE Spec2Model ----
(***************************************************************************)
(* A model of aerich's migration generator (src/aerich/migrate.py): the    *)
(* class-level accumulators of Migrate, the two diff passes of             *)
(* Migrate.migrate, the operator sequencer _merge_operators, the version   *)
(* bookkeeping and the artifact write, for one or several invocations in   *)
(* one process.                                                            *)
(*                                                                         *)
(* A rendered statement is a string in the code.  Here it is a record: sql *)
(* is the statement as a sequence of words, and kind/table/fields/unique   *)
(* name the change it renders, so that properties can speak about it.      *)
(***************************************************************************)
EXTENDS Integers, Sequences, FiniteSets, TLC

VARIABLES
    old_models,                       \* Tortoise.apps["diff_models"]: the baseline snapshot
    new_models,                       \* Tortoise.apps[cls.app]: the current models
    dialect,                          \* Migrate.dialect
    upgrade_operators,                \* Migrate.upgrade_operators
    downgrade_operators,              \* Migrate.downgrade_operators
    upgrade_fk_m2m_index_operators,   \* Migrate._upgrade_fk_m2m_index_operators
    downgrade_fk_m2m_index_operators, \* Migrate._downgrade_fk_m2m_index_operators
    upgrade_m2m,                      \* Migrate._upgrade_m2m
    downgrade_m2m,                    \* Migrate._downgrade_m2m
    column_reflex,                    \* Migrate._column_reflex
    pc,                               \* position of each migrate coroutine
    turn,                             \* the coroutine the event loop is running, 0 when none
    local,                            \* each coroutine's local variables, and in had which
                                      \* of the two sets held Aerich when it was called
    asked,                            \* the prompts ask_rename_column has answered
    clock,                            \* datetime.now(), in seconds
    history,                          \* the version text of the last Aerich row, <<>> when none
    files,                            \* the artifacts of migrate_location
    listed,                           \* what get_all_version_files returned last
    runs                              \* finished invocations of Migrate.migrate, oldest first

vars == <<old_models, new_models, dialect, upgrade_operators, downgrade_operators,
          upgrade_fk_m2m_index_operators, downgrade_fk_m2m_index_operators,
          upgrade_m2m, downgrade_m2m, column_reflex, pc, turn, local, asked,
          clock, history, listed, files, runs>>

(***************************************************************************)
(* The bounded input domain.                                               *)
(***************************************************************************)

\* Table names, in the order the model modules define them.  "ADDR" is a
\* table whose name holds the letters ADD, "Aerich" is Aerich.__name__, the
\* model of the migration history.
TableOrder == <<"x", "ADDR", "Aerich">>

\* Field names, in the order the model classes define them.
FieldOrder == <<"a", "b", "c">>

\* Composite index / unique_together tuples a model may declare.
TupleOrder == << <<"a", "b">> >>

SeqToSet(s) == {s[i] : i \in 1..Len(s)}

TableNames == SeqToSet(TableOrder)

FieldNames == SeqToSet(FieldOrder)

\* Two labels of 233 and of 234 letters.
Label233 == "nnnnnnnnnnnnnnnnnnnnnnnnnnnnnnnnnnnnnnnnnnnnnnnnnnnnnnnnnnnnnnnnnnnnnnnnnnnnnnnnnnnnnnnnnnnnnnnnnnnnnnnnnnnnnnnnnnnnnnnnnnnnnnnnnnnnnnnnnnnnnnnnnnnnnnnnnnnnnnnnnnnnnnnnnnnnnnnnnnnnnnnnnnnnnnnnnnnnnnnnnnnnnnnnnnnnnnnnnnnnnnnnnnnnnnnnn"

Label234 == "nnnnnnnnnnnnnnnnnnnnnnnnnnnnnnnnnnnnnnnnnnnnnnnnnnnnnnnnnnnnnnnnnnnnnnnnnnnnnnnnnnnnnnnnnnnnnnnnnnnnnnnnnnnnnnnnnnnnnnnnnnnnnnnnnnnnnnnnnnnnnnnnnnnnnnnnnnnnnnnnnnnnnnnnnnnnnnnnnnnnnnnnnnnnnnnnnnnnnnnnnnnnnnnnnnnnnnnnnnnnnnnnnnnnnnnnnn"

\* The letters of a name, for the substring test of _merge_operators and for
\* the length and the split of a version.
Chars(name) ==
    CASE name = "ADDR" -> <<"A", "D", "D", "R">>
      [] name = "ADD" -> <<"A", "D", "D">>
      [] name = "CREATE" -> <<"C", "R", "E", "A", "T", "E">>
      [] name = "init" -> <<"i", "n", "i", "t">>
      [] name = "update" -> <<"u", "p", "d", "a", "t", "e">>
      [] name = Label233 -> [i \in 1..233 |-> "n"]
      [] name = Label234 -> [i \in 1..234 |-> "n"]
      [] OTHER -> <<name>>

\* A field descriptor: what Field.describe() and the isinstance tests read.
\* role "absent" stands for a name the model does not define.
Fld(role, null, default, description, unique, index, through) ==
    [role |-> role, null |-> null, default |-> default, description |-> description,
     unique |-> unique, index |-> index, through |-> through]

Absent == Fld("absent", FALSE, 0, 0, FALSE, FALSE, "-")

Plain == Fld("plain", FALSE, 0, 0, FALSE, FALSE, "-")

PlainNull == Fld("plain", TRUE, 0, 0, FALSE, FALSE, "-")

PlainDoc == Fld("plain", FALSE, 1, 1, FALSE, FALSE, "-")

PlainUnique == Fld("plain", FALSE, 0, 0, TRUE, FALSE, "-")

PlainIndex == Fld("plain", FALSE, 0, 0, FALSE, TRUE, "-")

PlainBoth == Fld("plain", FALSE, 0, 0, TRUE, TRUE, "-")

ForeignKey == Fld("fk", FALSE, 0, 0, FALSE, FALSE, "-")

ManyToMany == Fld("m2m", FALSE, 0, 0, FALSE, FALSE, "t")

Backward == Fld("backward", FALSE, 0, 0, FALSE, FALSE, "-")

\* A model: exists is FALSE for a table the model set does not hold.
Mdl(exists, fields, indexes, unique_together) ==
    [exists |-> exists, fields |-> fields, indexes |-> indexes,
     unique_together |-> unique_together]

NoFields == [f \in FieldNames |-> Absent]

NoModel == Mdl(FALSE, NoFields, {}, {})

(***************************************************************************)
(* The DDL generator (aerich.ddl.BaseDDL and its dialects).  Statements    *)
(* are sequences of words; a name inside a statement is one word.          *)
(***************************************************************************)

Dialects == {"mysql", "postgres", "sqlite"}

\* The statement text of one change, per dialect.
Render(d, kind, table, fields, unique) ==
    LET uq == IF unique THEN <<"UNIQUE">> ELSE <<>>
        ix == <<IF unique THEN "uid" ELSE "idx", table>> \o fields
    IN CASE kind = "AddTable" -> <<"CREATE", "TABLE", "IF", "NOT", "EXISTS", table>>
         [] kind = "DropTable" -> <<"DROP", "TABLE", "IF", "EXISTS", table>>
         [] kind = "AddColumn" -> <<"ALTER", "TABLE", table, "ADD">> \o fields
         [] kind = "DropColumn" -> <<"ALTER", "TABLE", table, "DROP", "COLUMN">> \o fields
         [] kind = "ModifyColumn" ->
                IF d = "postgres"
                THEN <<"ALTER", "TABLE", table, "ALTER", "COLUMN">> \o fields \o <<"TYPE">>
                ELSE <<"ALTER", "TABLE", table, "MODIFY", "COLUMN">> \o fields
         [] kind = "RenameColumn" ->
                <<"ALTER", "TABLE", table, "RENAME", "COLUMN", fields[1], "TO", fields[2]>>
         [] kind = "SetNullable" ->
                <<"ALTER", "TABLE", table, "ALTER", "COLUMN">> \o fields \o <<"NOT", "NULL">>
         [] kind = "SetDefault" ->
                <<"ALTER", "TABLE", table, "ALTER", "COLUMN">> \o fields \o <<"DEFAULT">>
         [] kind = "SetComment" ->
                <<"COMMENT", "ON", "COLUMN", table>> \o fields \o <<"IS">>
         [] kind = "AddIndex" ->
                IF d = "postgres"
                THEN <<"CREATE">> \o uq \o <<"INDEX">> \o ix \o <<"ON", table>> \o fields
                ELSE <<"ALTER", "TABLE", table, "ADD">> \o uq \o <<"INDEX">> \o ix \o fields
         [] kind = "DropIndex" ->
                IF d = "postgres"
                THEN <<"DROP", "INDEX">> \o ix
                ELSE <<"ALTER", "TABLE", table, "DROP", "INDEX">> \o ix
         [] kind = "AddForeignKey" ->
                <<"ALTER", "TABLE", table, "ADD", "CONSTRAINT", "fk", table>> \o fields
                    \o <<"FOREIGN", "KEY">> \o fields \o <<"REFERENCES">>
         [] kind = "DropForeignKey" ->
                IF d = "postgres"
                THEN <<"ALTER", "TABLE", table, "DROP", "CONSTRAINT", "fk", table>> \o fields
                ELSE <<"ALTER", "TABLE", table, "DROP", "FOREIGN", "KEY", "fk", table>>
                         \o fields
         [] kind = "CreateJoinTable" -> <<"CREATE", "TABLE", fields[1]>>
         [] OTHER -> <<"DROP", "TABLE", "IF", "EXISTS", fields[1]>>

\* A SqliteDDL that overrides nothing.
NotSupportedNowhere(d, kind) == FALSE

\* SqliteDDL.drop_column, modify_column and rename_column raise NotSupportError.
NotSupported(d, kind) ==
    d = "sqlite" /\ kind \in {"DropColumn", "ModifyColumn", "RenameColumn"}

\* One call of a cls.ddl method: the statement it returns, or the error it raises.
\* For a join table, table is the owning model and fields[1] the join table.
Ddl(d, kind, table, fields, unique) ==
    IF NotSupported(d, kind)
    THEN [raised |-> "NotSupportError"]
    ELSE [raised |-> "none",
          op |-> [kind |-> kind, table |-> table, fields |-> fields, unique |-> unique,
                  sql |-> Render(d, kind, table, fields, unique)]]

\* Python's "p in s" on the letters of one word.
IsInfix(p, s) == \E k \in 0..(Len(s) - Len(p)) : SubSeq(s, k + 1, k + Len(p)) = p

\* "ADD" in operator or "CREATE" in operator.  No verb spans two words.
HasCreationVerb(op) ==
    \E i \in 1..Len(op.sql) :
        \/ IsInfix(Chars("ADD"), Chars(op.sql[i]))
        \/ IsInfix(Chars("CREATE"), Chars(op.sql[i]))

(***************************************************************************)
(* The accumulators, as one record while a pass runs.  err is the          *)
(* exception that ended the pass, "none" while it runs.                    *)
(***************************************************************************)

\* Migrate._add_operator, given the result of the ddl call in its argument:
\* the call raises before anything is appended.
AddOperator(ctx, res, upgrade, fk) ==
    IF ctx.err # "none" THEN ctx
    ELSE IF res.raised # "none" THEN [ctx EXCEPT !.err = res.raised]
    ELSE IF upgrade
         THEN IF fk THEN [ctx EXCEPT !.upfk = Append(@, res.op)]
                    ELSE [ctx EXCEPT !.up = Append(@, res.op)]
         ELSE IF fk THEN [ctx EXCEPT !.downfk = Append(@, res.op)]
                    ELSE [ctx EXCEPT !.down = Append(@, res.op)]

\* Migrate._is_fk_m2m
IsFkM2m(field) == field.role \in {"fk", "m2m"}

\* Migrate._exclude_field: the answer, and the accumulators with the join table noted.
ExcludeField(ctx, field, upgrade) ==
    IF field.role = "m2m"
    THEN IF upgrade
         THEN IF field.through \in SeqToSet(ctx.upm2m)
              THEN [excluded |-> TRUE, ctx |-> ctx]
              ELSE [excluded |-> FALSE,
                    ctx |-> [ctx EXCEPT !.upm2m = Append(@, field.through)]]
         ELSE IF field.through \in SeqToSet(ctx.downm2m)
              THEN [excluded |-> TRUE, ctx |-> ctx]
              ELSE [excluded |-> FALSE,
                    ctx |-> [ctx EXCEPT !.downm2m = Append(@, field.through)]]
    ELSE [excluded |-> field.role = "backward", ctx |-> ctx]

\* The column name of a foreign key field: field_name + "_id".
IdName(name) == CASE name = "a" -> "a_id" [] name = "b" -> "b_id" [] OTHER -> "c_id"

\* Migrate._resolve_fk_fields_name
ResolveFkFieldsName(model, fields_name) ==
    [i \in 1..Len(fields_name) |->
        IF model.fields[fields_name[i]].role = "fk"
        THEN IdName(fields_name[i]) ELSE fields_name[i]]

\* Migrate._add_index
AddIndexDdl(d, table, model, fields_name, unique) ==
    Ddl(d, "AddIndex", table, ResolveFkFieldsName(model, fields_name), unique)

\* Migrate._remove_index
RemoveIndexDdl(d, table, model, fields_name, unique) ==
    Ddl(d, "DropIndex", table, ResolveFkFieldsName(model, fields_name), unique)

\* Migrate._add_field
AddFieldDdl(d, table, name, field) ==
    IF field.role = "fk" THEN Ddl(d, "AddForeignKey", table, <<name>>, FALSE)
    ELSE IF field.role = "m2m" THEN Ddl(d, "CreateJoinTable", table, <<field.through>>, FALSE)
    ELSE Ddl(d, "AddColumn", table, <<name>>, FALSE)

\* Migrate._remove_field
RemoveFieldDdl(d, table, name, field) ==
    IF field.role = "fk" THEN Ddl(d, "DropForeignKey", table, <<name>>, FALSE)
    ELSE IF field.role = "m2m" THEN Ddl(d, "DropJoinTable", table, <<field.through>>, FALSE)
    ELSE Ddl(d, "DropColumn", table, <<name>>, FALSE)

\* Migrate._rename_field
RenameFieldDdl(d, table, old_column_name, new_name) ==
    Ddl(d, "RenameColumn", table, <<old_column_name, new_name>>, FALSE)

\* A description that keeps "unique" and "indexed".
DescribeWhole(field) == field

\* field.describe(serializable=True) without "unique" and "indexed": lines 275-280.
DescribeColumn(field) ==
    [role |-> field.role, null |-> field.null, default |-> field.default,
     description |-> field.description, through |-> field.through]

\* field.describe(serializable=True) without "name" and "db_column": lines 319-326.
\* A foreign key's description holds raw_field, its name + "_id".
DescribeUnnamed(name, field) ==
    [role |-> field.role, null |-> field.null, default |-> field.default,
     description |-> field.description, through |-> field.through,
     unique |-> field.unique, index |-> field.index,
     raw_field |-> IF field.role = "fk" THEN IdName(name) ELSE "-"]

\* _column_reflex as a set of <<key, value>> pairs, one per key.
ReflexHas(reflex, key) == \E kv \in reflex : kv[1] = key

ReflexGet(reflex, key) == (CHOOSE kv \in reflex : kv[1] = key)[2]

ReflexSet(reflex, key, value) == {kv \in reflex : kv[1] # key} \cup {<<key, value>>}

ReflexPop(reflex, key) == {kv \in reflex : kv[1] # key}

\* A pop that removes nothing.
RemoveNothing(s, x) == s

\* s without x: dict.pop on the insertion-ordered dict, whose keys are distinct.
RemoveName(s, x) == SelectSeq(s, LAMBDA y : y # x)

(***************************************************************************)
(* Migrate.diff_model.  env holds the dialect d, the direction upgrade and *)
(* yes, the prompts <<table, old, new>> the oracle confirms.  dm holds the *)
(* accumulators ctx and new_model_changed, the new-only field names in     *)
(* insertion order.                                                        *)
(***************************************************************************)

\* Lines 274-313: a field present in both models.
CompareField(ctx, env, table, old_model, new_model, key) ==
    LET new_field == new_model.fields[key]
        old_field == old_model.fields[key]
        up == env.upgrade
        modified == ~IsFkM2m(new_field) /\ DescribeColumn(new_field) # DescribeColumn(old_field)
        pg == modified /\ env.d = "postgres"
        c1 == IF pg /\ new_field.null # old_field.null
              THEN AddOperator(ctx, Ddl(env.d, "SetNullable", table, <<key>>, FALSE), up, FALSE)
              ELSE ctx
        c2 == IF pg /\ new_field.default # old_field.default
              THEN AddOperator(c1, Ddl(env.d, "SetDefault", table, <<key>>, FALSE), up, FALSE)
              ELSE c1
        c3 == IF pg /\ new_field.description # old_field.description
              THEN AddOperator(c2, Ddl(env.d, "SetComment", table, <<key>>, FALSE), up, FALSE)
              ELSE c2
        c4 == IF modified
              THEN AddOperator(c3, Ddl(env.d, "ModifyColumn", table, <<key>>, FALSE), up, FALSE)
              ELSE c3
    IN IF (old_field.index /\ ~new_field.index) \/ (old_field.unique /\ ~new_field.unique)
       THEN AddOperator(c4, RemoveIndexDdl(env.d, table, old_model, <<key>>, old_field.unique),
                        up, IsFkM2m(old_field))
       ELSE IF (new_field.index /\ ~old_field.index) \/ (new_field.unique /\ ~old_field.unique)
       THEN AddOperator(c4, AddIndexDdl(env.d, table, new_model, <<key>>, new_field.unique),
                        up, IsFkM2m(new_field))
       ELSE c4

\* Lines 267-313: one iteration of the loop over new_keys.
NewKeyStep(dm, env, table, old_model, new_model, new_key) ==
    LET new_field == new_model.fields[new_key]
        ex == ExcludeField(dm.ctx, new_field, env.upgrade)
    IN IF dm.ctx.err # "none" \/ new_field.role = "absent" THEN dm
       ELSE IF ex.excluded THEN [dm EXCEPT !.ctx = ex.ctx]
       ELSE IF old_model.fields[new_key].role = "absent"
       THEN [ctx |-> ex.ctx, changed |-> Append(dm.changed, new_key)]
       ELSE [dm EXCEPT !.ctx = CompareField(ex.ctx, env, table, old_model, new_model, new_key)]

\* Lines 322-341: the upgrade pass looks for a new-only field with the same
\* description and asks the oracle; j is the position in new_model_changed.
RECURSIVE SearchRename(_, _, _, _, _, _, _)
SearchRename(dm, env, table, old_model, new_model, old_key, j) ==
    LET field == old_model.fields[old_key]
    IN IF j > Len(dm.changed)
       THEN [dm EXCEPT !.ctx = AddOperator(dm.ctx, RemoveFieldDdl(env.d, table, old_key, field),
                                           env.upgrade, IsFkM2m(field))]
       ELSE LET nk == dm.changed[j]
                nf == new_model.fields[nk]
                flag == <<table, old_key, nk>> \in env.yes
                heard == [dm.ctx EXCEPT !.asked =
                              Append(@, [table |-> table, old |-> old_key, new |-> nk,
                                         flag |-> flag, upgrade |-> env.upgrade])]
                c1 == AddOperator(heard, RenameFieldDdl(env.d, table, old_key, nk),
                                  env.upgrade, IsFkM2m(nf))
            IN IF DescribeUnnamed(old_key, field) # DescribeUnnamed(nk, nf)
               THEN SearchRename(dm, env, table, old_model, new_model, old_key, j + 1)
               ELSE IF ~flag
               THEN SearchRename([dm EXCEPT !.ctx = heard], env, table, old_model, new_model,
                                 old_key, j + 1)
               ELSE IF c1.err # "none" THEN [dm EXCEPT !.ctx = c1]
               ELSE [ctx |-> [c1 EXCEPT !.reflex = ReflexSet(@, nk, old_key)],
                     changed |-> RemoveName(dm.changed, nk)]

\* Lines 342-354: the downgrade pass consults _column_reflex instead.
ReflexRename(dm, env, table, old_model, new_model, old_key) ==
    LET field == old_model.fields[old_key]
        new_name == ReflexGet(dm.ctx.reflex, old_key)
        nf == new_model.fields[new_name]
        c1 == AddOperator(dm.ctx, RenameFieldDdl(env.d, table, old_key, new_name),
                          env.upgrade, IsFkM2m(nf))
    IN IF ~ReflexHas(dm.ctx.reflex, old_key)
       THEN [dm EXCEPT !.ctx = AddOperator(dm.ctx, RemoveFieldDdl(env.d, table, old_key, field),
                                           env.upgrade, IsFkM2m(field))]
       ELSE IF new_name \notin SeqToSet(dm.changed)
       THEN [dm EXCEPT !.ctx.err = "KeyError"]
       ELSE IF c1.err # "none" THEN [dm EXCEPT !.ctx = c1]
       ELSE [ctx |-> [c1 EXCEPT !.reflex = ReflexPop(@, old_key)],
             changed |-> RemoveName(dm.changed, new_name)]

\* The loop over old_keys without the test "old_key not in new_keys".
OldKeyStepAnyKey(dm, env, table, old_model, new_model, old_key) ==
    LET field == old_model.fields[old_key]
        ex == ExcludeField(dm.ctx, field, env.upgrade)
        dm1 == [dm EXCEPT !.ctx = ex.ctx]
    IN IF dm.ctx.err # "none" \/ field.role = "absent" THEN dm
       ELSE IF ex.excluded THEN dm1
       ELSE IF env.upgrade
       THEN SearchRename(dm1, env, table, old_model, new_model, old_key, 1)
       ELSE ReflexRename(dm1, env, table, old_model, new_model, old_key)

\* Lines 315-354: one iteration of the loop over old_keys.
OldKeyStep(dm, env, table, old_model, new_model, old_key) ==
    LET field == old_model.fields[old_key]
        ex == ExcludeField(dm.ctx, field, env.upgrade)
        dm1 == [dm EXCEPT !.ctx = ex.ctx]
    IN IF dm.ctx.err # "none" \/ field.role = "absent" THEN dm
       ELSE IF new_model.fields[old_key].role # "absent" THEN dm
       ELSE IF ex.excluded THEN dm1
       ELSE IF env.upgrade
       THEN SearchRename(dm1, env, table, old_model, new_model, old_key, 1)
       ELSE ReflexRename(dm1, env, table, old_model, new_model, old_key)

\* Lines 355-360: the new-only fields that no rename took.
AddedStep(ctx, env, table, new_model, nk) ==
    LET nf == new_model.fields[nk]
    IN AddOperator(ctx, AddFieldDdl(env.d, table, nk, nf), env.upgrade, IsFkM2m(nf))

\* Lines 362-375: one tuple of a loop over indexes or unique_together.
\* The operator is added with the default fk=False.
GainedIndexStep(ctx, env, table, new_model, has, had, tuple, unique) ==
    IF tuple \in has /\ tuple \notin had
    THEN AddOperator(ctx, AddIndexDdl(env.d, table, new_model, tuple, unique),
                     env.upgrade, FALSE)
    ELSE ctx

LostIndexStep(ctx, env, table, old_model, has, had, tuple, unique) ==
    IF tuple \in had /\ tuple \notin has
    THEN AddOperator(ctx, RemoveIndexDdl(env.d, table, old_model, tuple, unique),
                     env.upgrade, FALSE)
    ELSE ctx

\* The loops of diff_model, each from position i of the sequence it runs over.
RECURSIVE NewKeysLoop(_, _, _, _, _, _)
NewKeysLoop(dm, env, table, old_model, new_model, i) ==
    IF i > Len(FieldOrder) THEN dm
    ELSE NewKeysLoop(NewKeyStep(dm, env, table, old_model, new_model, FieldOrder[i]),
                     env, table, old_model, new_model, i + 1)

RECURSIVE OldKeysLoop(_, _, _, _, _, _)
OldKeysLoop(dm, env, table, old_model, new_model, i) ==
    IF i > Len(FieldOrder) THEN dm
    ELSE OldKeysLoop(OldKeyStep(dm, env, table, old_model, new_model, FieldOrder[i]),
                     env, table, old_model, new_model, i + 1)

RECURSIVE AddedLoop(_, _, _, _, _, _)
AddedLoop(ctx, env, table, new_model, changed, i) ==
    IF i > Len(changed) THEN ctx
    ELSE AddedLoop(AddedStep(ctx, env, table, new_model, changed[i]),
                   env, table, new_model, changed, i + 1)

RECURSIVE GainedIndexLoop(_, _, _, _, _, _, _, _)
GainedIndexLoop(ctx, env, table, new_model, has, had, unique, i) ==
    IF i > Len(TupleOrder) THEN ctx
    ELSE GainedIndexLoop(
             GainedIndexStep(ctx, env, table, new_model, has, had, TupleOrder[i], unique),
             env, table, new_model, has, had, unique, i + 1)

RECURSIVE LostIndexLoop(_, _, _, _, _, _, _, _)
LostIndexLoop(ctx, env, table, old_model, has, had, unique, i) ==
    IF i > Len(TupleOrder) THEN ctx
    ELSE LostIndexLoop(
             LostIndexStep(ctx, env, table, old_model, has, had, TupleOrder[i], unique),
             env, table, old_model, has, had, unique, i + 1)

\* Lines 362-375: indexes, then unique_together.
DiffIndexes(ctx, env, table, old_model, new_model) ==
    LostIndexLoop(
        GainedIndexLoop(
            LostIndexLoop(
                GainedIndexLoop(ctx, env, table, new_model,
                                new_model.indexes, old_model.indexes, FALSE, 1),
                env, table, old_model, new_model.indexes, old_model.indexes, FALSE, 1),
            env, table, new_model,
            new_model.unique_together, old_model.unique_together, TRUE, 1),
        env, table, old_model, new_model.unique_together, old_model.unique_together, TRUE, 1)

\* Lines 267-360: the loop over new_keys, the loop over old_keys, the added fields.
DiffFields(ctx, env, table, old_model, new_model) ==
    LET dm == OldKeysLoop(
                  NewKeysLoop([ctx |-> ctx, changed |-> <<>>],
                              env, table, old_model, new_model, 1),
                  env, table, old_model, new_model, 1)
    IN AddedLoop(dm.ctx, env, table, new_model, dm.changed, 1)

\* Migrate.diff_model
DiffModel(ctx, env, table, old_model, new_model) ==
    DiffIndexes(DiffFields(ctx, env, table, old_model, new_model),
                env, table, old_model, new_model)

(***************************************************************************)
(* Migrate.diff_models                                                     *)
(***************************************************************************)

\* A diff_models that leaves the history model in the sets.
PopNothing(models) == models

\* old_models.pop(cls._aerich, None)
PopAerich(models) == [t \in DOMAIN models |-> IF t = "Aerich" THEN NoModel ELSE models[t]]

\* Lines 224-228: one iteration of the loop over new_models.
NewModelStep(ctx, env, olds, news, t) ==
    IF ctx.err # "none" \/ ~news[t].exists THEN ctx
    ELSE IF ~olds[t].exists
    THEN AddOperator(ctx, Ddl(env.d, "AddTable", t, <<>>, FALSE), env.upgrade, FALSE)
    ELSE DiffModel(ctx, env, t, olds[t], news[t])

\* Lines 230-232: one iteration of the loop over old_models.
OldModelStep(ctx, env, olds, news, t) ==
    IF olds[t].exists /\ ~news[t].exists
    THEN AddOperator(ctx, Ddl(env.d, "DropTable", t, <<>>, FALSE), env.upgrade, FALSE)
    ELSE ctx

RECURSIVE NewModelsLoop(_, _, _, _, _)
NewModelsLoop(ctx, env, olds, news, i) ==
    IF i > Len(TableOrder) THEN ctx
    ELSE NewModelsLoop(NewModelStep(ctx, env, olds, news, TableOrder[i]),
                       env, olds, news, i + 1)

RECURSIVE OldModelsLoop(_, _, _, _, _)
OldModelsLoop(ctx, env, olds, news, i) ==
    IF i > Len(TableOrder) THEN ctx
    ELSE OldModelsLoop(OldModelStep(ctx, env, olds, news, TableOrder[i]),
                       env, olds, news, i + 1)

\* Migrate.diff_models
DiffModels(ctx, env, olds, news) ==
    OldModelsLoop(NewModelsLoop(ctx, env, PopAerich(olds), PopAerich(news), 1),
                  env, PopAerich(olds), PopAerich(news), 1)

(***************************************************************************)
(* Migrate._merge_operators                                                *)
(***************************************************************************)

\* A merge that appends every operator of the fk/m2m/index list.
MergeStepAppend(operators, operator) == Append(operators, operator)

\* Lines 481-485: one operator of the fk/m2m/index list.
MergeStep(operators, operator) ==
    IF HasCreationVerb(operator)
    THEN Append(operators, operator)
    ELSE <<operator>> \o operators

\* A loop that takes the fk/m2m/index list from its end.
RECURSIVE MergeLoopBackward(_, _, _)
MergeLoopBackward(operators, fk_m2m_index_operators, i) ==
    IF i > Len(fk_m2m_index_operators) THEN operators
    ELSE MergeLoopBackward(
             MergeStep(operators,
                       fk_m2m_index_operators[Len(fk_m2m_index_operators) + 1 - i]),
             fk_m2m_index_operators, i + 1)

\* Lines 480 and 486: the loop over the fk/m2m/index list, in its order.
RECURSIVE MergeLoop(_, _, _)
MergeLoop(operators, fk_m2m_index_operators, i) ==
    IF i > Len(fk_m2m_index_operators) THEN operators
    ELSE MergeLoop(MergeStep(operators, fk_m2m_index_operators[i]),
                   fk_m2m_index_operators, i + 1)

MergeList(operators, fk_m2m_index_operators) ==
    MergeLoop(operators, fk_m2m_index_operators, 1)

(***************************************************************************)
(* The process: the class attributes of Migrate, the coroutines that run   *)
(* Migrate.migrate, and the event loop that runs one coroutine at a time   *)
(* between two awaits.                                                     *)
(***************************************************************************)

Procs == {1, 2}

\* The label passed to Migrate.migrate.
Labels == {"update"}

\* The class attributes as the record the passes work on.
Ctx ==
    [up |-> upgrade_operators, down |-> downgrade_operators,
     upfk |-> upgrade_fk_m2m_index_operators, downfk |-> downgrade_fk_m2m_index_operators,
     upm2m |-> upgrade_m2m, downm2m |-> downgrade_m2m,
     reflex |-> column_reflex, asked |-> asked, err |-> "none"]

\* Lines 24-31: the lists and the dict of the class body.
EmptyCtx ==
    [up |-> <<>>, down |-> <<>>, upfk |-> <<>>, downfk |-> <<>>, upm2m |-> <<>>,
     downm2m |-> <<>>, reflex |-> {}, asked |-> <<>>, err |-> "none"]

Store(ctx) ==
    /\ upgrade_operators' = ctx.up
    /\ downgrade_operators' = ctx.down
    /\ upgrade_fk_m2m_index_operators' = ctx.upfk
    /\ downgrade_fk_m2m_index_operators' = ctx.downfk
    /\ upgrade_m2m' = ctx.upm2m
    /\ downgrade_m2m' = ctx.downm2m
    /\ column_reflex' = ctx.reflex
    /\ asked' = ctx.asked

accumulators == <<upgrade_operators, downgrade_operators, upgrade_fk_m2m_index_operators,
                  downgrade_fk_m2m_index_operators, upgrade_m2m, downgrade_m2m,
                  column_reflex>>

\* The prompts the oracle may be given for a pair of model sets.
Prompts(olds, news) ==
    {<<t, o, n>> \in TableNames \X FieldNames \X FieldNames :
        /\ olds[t].exists /\ news[t].exists
        /\ olds[t].fields[o].role # "absent" /\ news[t].fields[o].role = "absent"
        /\ news[t].fields[n].role # "absent" /\ olds[t].fields[n].role = "absent"
        /\ DescribeUnnamed(o, olds[t].fields[o]) = DescribeUnnamed(n, news[t].fields[n])}

\* The prompts of a log that the oracle confirmed.
Confirmed(log) == {<<log[i].table, log[i].old, log[i].new>> : i \in {j \in 1..Len(log) : log[j].flag}}

\* What a finished invocation leaves behind, for the properties: its inputs,
\* the oracle's answers, the lists it ended with, the file it wrote and how
\* many invocations had finished when it began.
NoVersion == [num |-> -1, now |-> 0, name |-> "-"]

RunRecord(p, ctx, wrote, version) ==
    [p |-> p, old |-> old_models, new |-> new_models, d |-> dialect, asked |-> ctx.asked,
     up |-> ctx.up, down |-> ctx.down, err |-> ctx.err, wrote |-> wrote,
     version |-> version, began |-> local[p].began]

\* Line 112: Migrate.migrate(name) is called with one of the labels.
StartWith(p, labels) ==
    /\ pc[p] = "idle" /\ turn = 0
    /\ \E name \in labels :
          local' = [local EXCEPT ![p] = [name |-> name, now |-> 0, last |-> -1,
                                         began |-> Len(runs),
                                         had |-> <<old_models["Aerich"].exists,
                                                   new_models["Aerich"].exists>>]]
    /\ pc' = [pc EXCEPT ![p] = "upgrade"]
    /\ turn' = p
    /\ asked' = <<>>
    /\ UNCHANGED <<old_models, new_models, dialect, accumulators, clock, history, listed, files, runs>>

Start(p) == StartWith(p, Labels)

\* The exception leaves migrate: nothing is caught on the way.
Raise(p, ctx) ==
    /\ pc' = [pc EXCEPT ![p] = "failed"]
    /\ turn' = 0
    /\ runs' = Append(runs, RunRecord(p, ctx, FALSE, NoVersion))

\* Line 121: cls.diff_models(diff_models, app_models)
DiffUpgrade(p) ==
    /\ pc[p] = "upgrade" /\ turn = p
    /\ \E yes \in SUBSET Prompts(old_models, new_models) :
          LET ctx == DiffModels(Ctx, [d |-> dialect, upgrade |-> TRUE, yes |-> yes],
                                old_models, new_models)
          IN /\ Store(ctx)
             /\ IF ctx.err # "none" THEN Raise(p, ctx)
                ELSE /\ pc' = [pc EXCEPT ![p] = "downgrade"]
                     /\ UNCHANGED <<turn, runs>>
    /\ old_models' = PopAerich(old_models)
    /\ new_models' = PopAerich(new_models)
    /\ UNCHANGED <<dialect, local, clock, history, listed, files>>

\* Line 122: cls.diff_models(app_models, diff_models, False)
DiffDowngrade(p) ==
    /\ pc[p] = "downgrade" /\ turn = p
    /\ LET ctx == DiffModels(Ctx, [d |-> dialect, upgrade |-> FALSE, yes |-> {}],
                             new_models, old_models)
       IN /\ Store(ctx)
          /\ IF ctx.err # "none" THEN Raise(p, ctx)
             ELSE /\ pc' = [pc EXCEPT ![p] = "merge"]
                  /\ UNCHANGED <<turn, runs>>
    /\ UNCHANGED <<old_models, new_models, dialect, local, clock, history, listed, files>>

\* Line 124: cls._merge_operators()
MergeOperators(p) ==
    /\ pc[p] = "merge" /\ turn = p
    /\ upgrade_operators' = MergeList(upgrade_operators, upgrade_fk_m2m_index_operators)
    /\ downgrade_operators' = MergeList(downgrade_operators, downgrade_fk_m2m_index_operators)
    /\ pc' = [pc EXCEPT ![p] = "merged"]
    /\ UNCHANGED <<old_models, new_models, dialect, upgrade_fk_m2m_index_operators,
                   downgrade_fk_m2m_index_operators, upgrade_m2m, downgrade_m2m,
                   column_reflex, turn, local, asked, clock, history, listed, files, runs>>

\* Lines 126-127: no upgrade operator, migrate returns "".
ReturnEmpty(p) ==
    /\ pc[p] = "merged" /\ turn = p
    /\ upgrade_operators = <<>>
    /\ pc' = [pc EXCEPT ![p] = "done"]
    /\ turn' = 0
    /\ runs' = Append(runs, RunRecord(p, Ctx, FALSE, NoVersion))
    /\ UNCHANGED <<old_models, new_models, dialect, accumulators, local, asked, clock,
                   history, listed, files>>

\* Lines 129, 102, 91-92: generate_version reads the clock, then awaits the
\* query for the last Aerich row; the event loop is free to run another coroutine.
GenerateVersion(p) ==
    /\ pc[p] = "merged" /\ turn = p
    /\ upgrade_operators # <<>>
    /\ local' = [local EXCEPT ![p].now = clock]
    /\ pc' = [pc EXCEPT ![p] = "waiting"]
    /\ turn' = 0
    /\ UNCHANGED <<old_models, new_models, dialect, accumulators, asked, clock, history, listed,
                   files, runs>>

\* str(n) of a natural number.
DigitChars == <<"0", "1", "2", "3", "4", "5", "6", "7", "8", "9">>

RECURSIVE Str(_)
Str(n) ==
    IF n < 10 THEN <<DigitChars[n + 1]>>
    ELSE Str(n \div 10) \o <<DigitChars[(n % 10) + 1]>>

\* int(s) of a text of decimal digits.
DigitValue(c) == CHOOSE d \in 0..9 : DigitChars[d + 1] = c

RECURSIVE ParseInt(_)
ParseInt(s) ==
    IF Len(s) = 1 THEN DigitValue(s[1])
    ELSE 10 * ParseInt(SubSeq(s, 1, Len(s) - 1)) + DigitValue(s[Len(s)])

\* s.split("_")[0] and s.split("_", 1)[0]: the text before the first "_".
RECURSIVE SplitFirst(_)
SplitFirst(s) ==
    IF s = <<>> \/ s[1] = "_" THEN <<>> ELSE <<s[1]>> \o SplitFirst(Tail(s))

\* Line 91: datetime.now().strftime("%Y%m%d%H%M%S"), fourteen digits; the
\* clock counts the seconds of one minute.
Stamp(now) ==
    <<"2", "0", "2", "0", "0", "1", "0", "1", "0", "0", "0", "0">>
        \o (IF now < 10 THEN <<"0">> ELSE <<>>) \o Str(now)

\* Lines 94-95: f"{num}_{now}_{name}.json"
VersionName(version) ==
    Str(version.num) \o <<"_">> \o Stamp(version.now) \o <<"_">> \o Chars(version.name)
        \o <<".", "j", "s", "o", "n">>

MAX_VERSION_LENGTH == 255

\* Aerich.filter(app=cls.app).first() found no row.
NoRow == <<>>

\* Lines 82-87: the query answers and the coroutine runs again; the number
\* is parsed from the version of the row, None (-1) without a row.
GetLastVersionNum(p) ==
    /\ pc[p] = "waiting" /\ turn = 0
    /\ local' = [local EXCEPT ![p].last =
                     IF history = NoRow THEN -1 ELSE ParseInt(SplitFirst(history))]
    /\ pc' = [pc EXCEPT ![p] = "write"]
    /\ turn' = p
    /\ UNCHANGED <<old_models, new_models, dialect, accumulators, asked, clock, history, listed,
                   files, runs>>

\* A generate_version that keeps the label passed when no version is persisted.
VersionKeepsLabel(last, now, name) == [num |-> last + 1, now |-> now, name |-> name]

\* Lines 93-95: the version of the file.
Version(last, now, name) ==
    IF last = -1
    THEN [num |-> 0, now |-> now, name |-> "init"]
    ELSE [num |-> last + 1, now |-> now, name |-> name]

\* open(path, "w") and json.dump: the file of that name is replaced.
WriteFile(fs, version, content) ==
    {f \in fs : f.version # version} \cup
        {[version |-> version, upgrade |-> content.upgrade, downgrade |-> content.downgrade]}

\* A generate_version without the length check.
TooLongNever(last, version) == FALSE

\* Lines 93-97: the first version is returned unchecked; any other is
\* refused when its text is longer than MAX_VERSION_LENGTH.
TooLong(last, version) ==
    last # -1 /\ Len(VersionName(version)) > MAX_VERSION_LENGTH

\* Lines 93-98 and 103-109: the version is formed, or ValueError leaves
\* migrate; the content is read from the class attributes and written.
GenerateDiffSql(p) ==
    /\ pc[p] = "write" /\ turn = p
    /\ LET version == Version(local[p].last, local[p].now, local[p].name)
       IN IF TooLong(local[p].last, version)
          THEN /\ Raise(p, [Ctx EXCEPT !.err = "ValueError"])
               /\ files' = files
          ELSE /\ files' = WriteFile(files, version,
                               [upgrade |-> upgrade_operators,
                                downgrade |-> downgrade_operators])
               /\ runs' = Append(runs, RunRecord(p, Ctx, TRUE, version))
               /\ pc' = [pc EXCEPT ![p] = "done"]
               /\ turn' = 0
    /\ UNCHANGED <<old_models, new_models, dialect, accumulators, local, asked, clock,
                   history, listed>>

(***************************************************************************)
(* The inputs: the model sets the loader hands over, and the dialect.      *)
(***************************************************************************)

\* The models of table "x".
XModels ==
    {Mdl(TRUE, [f \in FieldNames |-> IF f = "a" THEN a ELSE IF f = "b" THEN b ELSE Absent],
         {}, {}) :
        a \in {Absent, Plain, PlainNull, PlainUnique, PlainIndex},
        b \in {Absent, Plain, ForeignKey, ManyToMany}}
    \cup {Mdl(TRUE, [f \in FieldNames |-> IF f = "c" THEN Absent ELSE Plain], {},
              {<<"a", "b">>}),
          Mdl(TRUE, [f \in FieldNames |-> IF f = "b" THEN Backward ELSE Absent], {}, {}),
          Mdl(TRUE, [f \in FieldNames |-> IF f = "a" THEN PlainBoth ELSE Absent], {}, {}),
          Mdl(TRUE, [f \in FieldNames |-> IF f = "c" THEN Plain ELSE Absent], {}, {}),
          Mdl(TRUE, [f \in FieldNames |-> IF f = "a" THEN Absent ELSE Plain], {}, {}),
          NoModel}

\* The models of table "ADDR".
AddrModels ==
    {Mdl(TRUE, [f \in FieldNames |-> IF f = n THEN d ELSE Absent], {}, {}) :
        n \in {"b"}, d \in {Plain, ForeignKey, ManyToMany}}
    \cup {Mdl(TRUE, [f \in FieldNames |-> IF f = "a" THEN Plain ELSE Absent], {}, {}),
          NoModel}

ModelSets ==
    {[t \in TableNames |-> IF t = "x" THEN x ELSE IF t = "ADDR" THEN y ELSE NoModel] :
        x \in XModels, y \in AddrModels}

\* The process after the class body ran and init_with_old_models loaded the
\* two model sets: empty accumulators, no coroutine started.
InitWith(sets, dialects, prior) ==
    /\ old_models \in sets
    /\ new_models \in sets
    /\ dialect \in dialects
    /\ upgrade_operators = <<>>
    /\ downgrade_operators = <<>>
    /\ upgrade_fk_m2m_index_operators = <<>>
    /\ downgrade_fk_m2m_index_operators = <<>>
    /\ upgrade_m2m = <<>>
    /\ downgrade_m2m = <<>>
    /\ column_reflex = {}
    /\ pc = [p \in Procs |-> "idle"]
    /\ turn = 0
    /\ local = [p \in Procs |-> [name |-> "-", now |-> 0, last |-> -1, began |-> 0,
                                 had |-> <<FALSE, FALSE>>]]
    /\ asked = <<>>
    /\ clock = 0
    /\ files \in {{}, prior}
    /\ history \in {NoRow} \cup {VersionName(f.version) : f \in files}
    /\ runs = <<>>
    /\ listed = <<>>

Init == InitWith(ModelSets, Dialects, {})

\* One invocation of Migrate.migrate, by coroutine p.
Migrate(p) ==
    \/ Start(p)
    \/ DiffUpgrade(p)
    \/ DiffDowngrade(p)
    \/ MergeOperators(p)
    \/ ReturnEmpty(p)
    \/ GenerateVersion(p)
    \/ GetLastVersionNum(p)
    \/ GenerateDiffSql(p)

\* One invocation in a fresh process.
Next == \E p \in {1} : Migrate(p)

Spec == Init /\ [][Next]_vars

(***************************************************************************)
(* Several invocations in one process, one after the other.                *)
(***************************************************************************)

\* How many times migrate is called in one process.
MaxRuns == 2

\* The last second the clock reaches.
MaxClock == 1

\* The model sets of the processes that call migrate more than once.
FewSets ==
    {m \in ModelSets :
        /\ m["x"].exists
        /\ m["x"].fields["a"] \in {Absent, Plain}
        /\ m["x"].fields["b"] \in {Absent, Plain, ManyToMany}
        /\ m["x"].fields["c"] = Absent
        /\ m["x"].unique_together = {}
        /\ m["ADDR"] = NoModel}

\* An artifact an earlier process wrote.
PriorFile ==
    [version |-> [num |-> 0, now |-> 0, name |-> "init"],
     upgrade |-> <<Ddl("mysql", "AddTable", "x", <<>>, FALSE).op>>,
     downgrade |-> <<Ddl("mysql", "DropTable", "x", <<>>, FALSE).op>>]

\* The caller has the result, or the exception, of migrate and may call again.
Return(p) ==
    /\ pc[p] \in {"done", "failed"}
    /\ Len(runs) < MaxRuns
    /\ pc' = [pc EXCEPT ![p] = "idle"]
    /\ UNCHANGED <<old_models, new_models, dialect, accumulators, turn, local, asked,
                   clock, history, listed, files, runs>>

\* Lines 56-79, after write_old_models (lines 192-208) copied the current
\* models over the snapshot: the next command of the process loads the
\* snapshot and the current models, which the developer may have edited, and
\* is ready to call migrate.  No accumulator is touched.
InitWithOldModels ==
    /\ turn = 0 /\ Len(runs) < MaxRuns
    /\ \A p \in Procs : pc[p] \in {"idle", "done", "failed"}
    /\ \E p \in Procs : pc[p] # "idle"
    /\ old_models' = new_models
    /\ new_models' \in FewSets
    /\ pc' = [p \in Procs |-> "idle"]
    /\ UNCHANGED <<dialect, accumulators, turn, local, asked, clock, history, listed, files, runs>>

\* A second passes while a coroutine waits.
Tick ==
    /\ turn = 0 /\ clock < MaxClock
    /\ \E p \in Procs : pc[p] = "waiting"
    /\ clock' = clock + 1
    /\ UNCHANGED <<old_models, new_models, dialect, accumulators, pc, turn, local, asked,
                   history, listed, files, runs>>

\* An artifact of a later migration of that process.
PriorNine ==
    [version |-> [num |-> 9, now |-> 0, name |-> "update"],
     upgrade |-> <<Ddl("mysql", "AddColumn", "x", <<"a">>, FALSE).op>>,
     downgrade |-> <<Ddl("mysql", "DropColumn", "x", <<"a">>, FALSE).op>>]

\* Labels at the length limit: with a one-digit number the version has 255
\* and 256 characters.
LongLabels == {Label233, Label234}

\* Migrate.migrate(name) is called with a long label.
StartLong(p) == StartWith(p, LongLabels)

InitRepeat == InitWith(FewSets, Dialects, {PriorFile, PriorNine})

NextRepeat ==
    \/ \E p \in {1} : Migrate(p) \/ StartLong(p) \/ Return(p)
    \/ InitWithOldModels

SpecRepeat == InitRepeat /\ [][NextRepeat]_vars

(***************************************************************************)
(* Two invocations in one process, interleaved at the await.               *)
(***************************************************************************)

InitConc == InitWith(FewSets, {"mysql"}, {})

NextConc ==
    \/ \E p \in Procs : Migrate(p)
    \/ Tick

SpecConc == InitConc /\ [][NextConc]_vars

(***************************************************************************)
(* One invocation on model sets that hold the model of the migration       *)
(* history, as the sets of an application that lists aerich.models do.     *)
(***************************************************************************)

\* The Aerich model as the application has it and as earlier snapshots may.
AerichModels ==
    {Mdl(TRUE, [f \in FieldNames |-> IF f = "a" THEN Plain ELSE Absent], {}, {}),
     Mdl(TRUE, [f \in FieldNames |-> IF f = "c" THEN Absent ELSE Plain], {}, {}),
     NoModel}

AerichSets ==
    {[t \in TableNames |-> IF t = "x" THEN x ELSE IF t = "ADDR" THEN y ELSE z] :
        x \in {m \in XModels : /\ m.fields["a"] \in {Absent, Plain}
                                /\ m.fields["b"] \in {Absent, Plain, ManyToMany}
                                /\ m.fields["c"] = Absent
                                /\ m.unique_together = {}},
        y \in {m \in AddrModels : m.fields["b"] \in {Absent, Plain}},
        z \in AerichModels}

InitAerich == InitWith(AerichSets, Dialects, {})

SpecAerich == InitAerich /\ [][Next]_vars

(***************************************************************************)
(* The migrate location: its listing, and a process that dies while it     *)
(* writes an artifact.                                                     *)
(***************************************************************************)

\* Lines 40-43: get_old_model_file(), the snapshot module that lies in the
\* migrate location beside the artifacts.
OldModelFile == <<"o", "l", "d", "_", "m", "o", "d", "e", "l", "s", ".", "p", "y">>

\* The names in cls.migrate_location.
Directory == {VersionName(f.version) : f \in files} \cup {OldModelFile}

\* os.listdir: the names, once each, in any order.
Listings ==
    {s \in [1..Cardinality(Directory) -> Directory] :
        \A i, j \in 1..Cardinality(Directory) : i # j => s[i] # s[j]}

\* x.endswith("json")
EndsWithJson(x) == Len(x) >= 4 /\ SubSeq(x, Len(x) - 3, Len(x)) = <<"j", "s", "o", "n">>

\* A key that reads the first character only, as an ordering of the texts does.
SortKeyFirstDigit(x) == DigitValue(x[1])

\* Line 49: key=lambda x: int(x.split("_")[0])
SortKey(x) == ParseInt(SplitFirst(x))

\* sorted(): stable, so x goes behind the names whose key is not greater.
InsertSorted(s, x) ==
    LET k == Cardinality({i \in 1..Len(s) : SortKey(s[i]) <= SortKey(x)})
    IN SubSeq(s, 1, k) \o <<x>> \o SubSeq(s, k + 1, Len(s))

RECURSIVE SortedLoop(_, _, _)
SortedLoop(acc, s, i) ==
    IF i > Len(s) THEN acc ELSE SortedLoop(InsertSorted(acc, s[i]), s, i + 1)

Sorted(s) == SortedLoop(<<>>, s, 1)

\* Lines 45-50: Migrate.get_all_version_files
GetAllVersionFiles ==
    /\ turn = 0
    /\ \E listing \in Listings : listed' = Sorted(SelectSeq(listing, EndsWithJson))
    /\ UNCHANGED <<old_models, new_models, dialect, accumulators, pc, turn, local, asked,
                   clock, history, files, runs>>

\* What open(path, "w") leaves at the path until json.dump and the close of
\* the with block have written the document: a file without its document.
Truncated == [upgrade |-> <<>>, downgrade |-> <<>>]

\* Lines 102-107: the version is formed, or ValueError leaves migrate, and
\* the file is opened for writing.
OpenFile(p) ==
    /\ pc[p] = "write" /\ turn = p
    /\ LET version == Version(local[p].last, local[p].now, local[p].name)
       IN IF TooLong(local[p].last, version)
          THEN /\ Raise(p, [Ctx EXCEPT !.err = "ValueError"])
               /\ files' = files
          ELSE /\ files' = WriteFile(files, version, Truncated)
               /\ pc' = [pc EXCEPT ![p] = "dump"]
               /\ UNCHANGED <<turn, runs>>
    /\ UNCHANGED <<old_models, new_models, dialect, accumulators, local, asked, clock,
                   history, listed>>

\* Lines 103-109: json.dump writes the content and the with block closes the file.
DumpFile(p) ==
    /\ pc[p] = "dump" /\ turn = p
    /\ LET version == Version(local[p].last, local[p].now, local[p].name)
       IN /\ files' = WriteFile(files, version,
                          [upgrade |-> upgrade_operators, downgrade |-> downgrade_operators])
          /\ runs' = Append(runs, RunRecord(p, Ctx, TRUE, version))
    /\ pc' = [pc EXCEPT ![p] = "done"]
    /\ turn' = 0
    /\ UNCHANGED <<old_models, new_models, dialect, accumulators, local, asked, clock,
                   history, listed>>

\* The process dies inside _generate_diff_sql: at the await, before the file
\* is opened, or between open and the end of the with block.  What it had
\* listed is gone with it; the migrate location stays as it is.
Crash ==
    /\ \E p \in Procs : pc[p] \in {"waiting", "write", "dump"}
    /\ pc' = [p \in Procs |-> "crashed"]
    /\ turn' = 0
    /\ listed' = <<>>
    /\ UNCHANGED <<old_models, new_models, dialect, accumulators, local, asked, clock,
                   history, files, runs>>

InitCrash == InitWith(FewSets, {"mysql"}, {PriorFile, PriorNine})

NextCrash ==
    \/ \E p \in {1} :
          \/ Start(p) \/ StartLong(p) \/ DiffUpgrade(p) \/ DiffDowngrade(p)
          \/ MergeOperators(p) \/ ReturnEmpty(p) \/ GenerateVersion(p)
          \/ GetLastVersionNum(p) \/ OpenFile(p) \/ DumpFile(p)
    \/ Tick
    \/ Crash
    \/ GetAllVersionFiles

SpecCrash == InitCrash /\ [][NextCrash]_vars

(***************************************************************************)
(* Properties.                                                             *)
(***************************************************************************)

\* The change a statement renders.
Change(op) == <<op.kind, op.table, op.fields>>

Changes(ops) == {Change(ops[i]) : i \in 1..Len(ops)}

Positions(ops, kind, table, fields) ==
    {i \in 1..Len(ops) : Change(ops[i]) = <<kind, table, fields>>}

\* Each direction's operators, ordinary and referential.
UpgradeChanges == Changes(upgrade_operators) \cup Changes(upgrade_fk_m2m_index_operators)

DowngradeChanges == Changes(downgrade_operators) \cup Changes(downgrade_fk_m2m_index_operators)

\* An invocation in a process whose accumulators are as the class body left them.
FreshRun(olds, news, d, yes) ==
    LET c1 == DiffModels(EmptyCtx, [d |-> d, upgrade |-> TRUE, yes |-> yes], olds, news)
        c2 == DiffModels(c1, [d |-> d, upgrade |-> FALSE, yes |-> {}], news, olds)
    IN IF c1.err # "none" THEN [err |-> c1.err, up |-> c1.up, down |-> c1.down]
       ELSE IF c2.err # "none" THEN [err |-> c2.err, up |-> c2.up, down |-> c2.down]
       ELSE [err |-> "none", up |-> MergeList(c2.up, c2.upfk),
             down |-> MergeList(c2.down, c2.downfk)]

\* C1: when the old and the new model set are identical, the upgrade pass, the
\* downgrade pass and the merge complete and leave upgrade_operators and
\* downgrade_operators empty, with no referential operator either.
C1_IdenticalSetsNoOperators ==
    (old_models = new_models /\ pc[1] \in {"merged", "done", "failed"}) =>
        /\ pc[1] # "failed"
        /\ upgrade_operators = <<>>
        /\ downgrade_operators = <<>>
        /\ upgrade_fk_m2m_index_operators = <<>>
        /\ downgrade_fk_m2m_index_operators = <<>>

\* C1 witness: identical sets, with two models that share a join table, merged.
C1_Witness ==
    /\ pc[1] = "merged" /\ old_models = new_models
    /\ new_models["x"].fields["b"].role = "m2m"
    /\ new_models["ADDR"].fields["b"].role = "m2m"
    /\ new_models["x"].fields["a"].unique

AddKinds == {"AddTable", "AddColumn", "AddForeignKey", "CreateJoinTable", "AddIndex"}

DropKinds == {"DropTable", "DropColumn", "DropForeignKey", "DropJoinTable", "DropIndex"}

Opposite(kind) ==
    CASE kind = "AddTable" -> "DropTable"
      [] kind = "DropTable" -> "AddTable"
      [] kind = "AddColumn" -> "DropColumn"
      [] kind = "DropColumn" -> "AddColumn"
      [] kind = "AddForeignKey" -> "DropForeignKey"
      [] kind = "DropForeignKey" -> "AddForeignKey"
      [] kind = "CreateJoinTable" -> "DropJoinTable"
      [] kind = "DropJoinTable" -> "CreateJoinTable"
      [] kind = "AddIndex" -> "DropIndex"
      [] OTHER -> "AddIndex"

\* C2: after both passes, every add-class change of the upgrade pass has the
\* drop-class change of the same table, field or index in the downgrade pass,
\* and every drop-class change of the upgrade pass has the add-class one.
C2_StructuralSymmetry ==
    pc[1] = "merge" =>
        \A c \in UpgradeChanges :
            c[1] \in AddKinds \cup DropKinds => <<Opposite(c[1]), c[2], c[3]>> \in DowngradeChanges

\* C3: after both passes, every rename the oracle confirmed in the upgrade
\* pass has its RenameColumn new->old for the same model in the downgrade
\* pass, with no DropColumn or AddColumn for the pair, and the oracle was not
\* asked in the downgrade pass.
C3_ConfirmedRenameMirrored ==
    pc[1] = "merge" =>
        /\ \A i \in 1..Len(asked) : asked[i].upgrade
        /\ \A c \in Confirmed(asked) :
              /\ <<"RenameColumn", c[1], <<c[3], c[2]>> >> \in DowngradeChanges
              /\ <<"DropColumn", c[1], <<c[3]>> >> \notin DowngradeChanges
              /\ <<"AddColumn", c[1], <<c[2]>> >> \notin DowngradeChanges

\* The final list of one direction against what the passes collected.
Placed(ordinary, referential, final) ==
    LET ref == SeqToSet(referential)
    IN /\ \A op \in ref : \E i \in 1..Len(final) : final[i] = op
       /\ \A i, j \in 1..Len(final) :
             (final[i] \in ref /\ final[j] \notin ref) =>
                 IF HasCreationVerb(final[i]) THEN j < i ELSE i < j
       /\ SelectSeq(final, LAMBDA op : op \notin ref) = ordinary

\* C4: _merge_operators puts every referential operator whose text holds ADD
\* or CREATE after every ordinary operator and every other referential
\* operator before every ordinary operator, and keeps the ordinary operators
\* in their order, in the upgrade list and in the downgrade list.
C4_MergePlacement ==
    [][(pc[1] = "merge" /\ pc'[1] = "merged") =>
          /\ Placed(upgrade_operators, upgrade_fk_m2m_index_operators, upgrade_operators')
          /\ Placed(downgrade_operators, downgrade_fk_m2m_index_operators,
                    downgrade_operators')]_vars

\* C4 witness: a merged upgrade list with a referential operator without a
\* creation verb, then two ordinary operators, then a referential operator
\* with one.
C4_Witness ==
    /\ pc[1] = "merged"
    /\ LET ref == SeqToSet(upgrade_fk_m2m_index_operators)
           final == upgrade_operators
       IN \E i, j, k, l \in 1..Len(final) :
             /\ i < j /\ j < k /\ k < l
             /\ final[i] \in ref /\ ~HasCreationVerb(final[i])
             /\ final[j] \notin ref /\ final[k] \notin ref
             /\ final[l] \in ref /\ HasCreationVerb(final[l])

\* C5: a unique_together tuple the new model has and the old model lacks gives
\* exactly one AddIndex in the final upgrade list; it went through the
\* fk/m2m/index accumulator and stands after every ordinary operator.
C5_UniqueTogetherReferential ==
    pc[1] = "merged" =>
        \A t \in TableNames : \A u \in new_models[t].unique_together :
            (old_models[t].exists /\ u \notin old_models[t].unique_together) =>
                LET fields == ResolveFkFieldsName(new_models[t], u)
                    at == Positions(upgrade_operators, "AddIndex", t, fields)
                    ref == SeqToSet(upgrade_fk_m2m_index_operators)
                IN /\ Cardinality(at) = 1
                   /\ \A i \in at :
                         /\ upgrade_operators[i] \in ref
                         /\ \A j \in 1..Len(upgrade_operators) :
                               upgrade_operators[j] \notin ref => j < i

\* The foreign keys of olds that news drops: one DropForeignKey each in the
\* final list, before every DropColumn and every DropTable.
ForeignKeyDroppedFirst(olds, news, final) ==
    \A t \in TableNames : \A f \in FieldNames :
        ( /\ olds[t].exists /\ news[t].exists
          /\ olds[t].fields[f].role = "fk" /\ news[t].fields[f].role = "absent"
          /\ \A n \in FieldNames : Positions(final, "RenameColumn", t, <<f, n>>) = {} ) =>
            LET at == Positions(final, "DropForeignKey", t, <<f>>)
            IN /\ Cardinality(at) = 1
               /\ \A i \in at : \A j \in 1..Len(final) :
                     final[j].kind \in {"DropColumn", "DropTable"} => i < j

\* C6: a foreign key of the old model that the new model drops gives exactly
\* one DropForeignKey, before every ordinary DropColumn and DropTable of the
\* final list of its direction.
C6_DropForeignKeyFirst ==
    pc[1] = "merged" =>
        /\ ForeignKeyDroppedFirst(old_models, new_models, upgrade_operators)
        /\ ForeignKeyDroppedFirst(new_models, old_models, downgrade_operators)

\* C7: every finished invocation ended as an invocation with fresh
\* accumulators on its own model sets and oracle answers ends, the length
\* error of the version apart, which comes after the diff; one whose two
\* model sets are identical wrote no artifact and left both lists empty.
C7_NoLeakBetweenRuns ==
    \A i \in 1..Len(runs) :
        LET r == runs[i]
            fresh == FreshRun(r.old, r.new, r.d, Confirmed(r.asked))
            err == IF r.err = "ValueError" THEN "none" ELSE r.err
        IN /\ err = fresh.err
           /\ err = "none" => (r.up = fresh.up /\ r.down = fresh.down)
           /\ r.old = r.new => (~r.wrote /\ r.up = <<>> /\ r.down = <<>>)

\* C8: of two invocations that both began before either finished, each wrote
\* the operators of its own diff, and the two wrote different files.
C8_ConcurrentRunsIndependent ==
    \A i, j \in 1..Len(runs) :
        (i # j /\ runs[i].began = 0 /\ runs[j].began = 0 /\ runs[i].wrote) =>
            LET r == runs[i]
                fresh == FreshRun(r.old, r.new, r.d, Confirmed(r.asked))
            IN /\ r.up = fresh.up /\ r.down = fresh.down
               /\ runs[j].wrote => runs[j].version # r.version

SqliteRefused == {"DropColumn", "ModifyColumn", "RenameColumn"}

NoneRefused(ops) == \A i \in 1..Len(ops) : ops[i].kind \notin SqliteRefused

\* C9: on SQLite no DropColumn, ModifyColumn or RenameColumn statement is ever
\* collected; a pass whose changes ask for one does not complete; and the
\* step on which an invocation fails leaves the artifacts as they were, after
\* which the invocation writes nothing.
C9_SqliteRefusalAborts ==
    /\ [](dialect = "sqlite" =>
             /\ NoneRefused(upgrade_operators)
             /\ NoneRefused(downgrade_operators)
             /\ NoneRefused(upgrade_fk_m2m_index_operators)
             /\ NoneRefused(downgrade_fk_m2m_index_operators))
    /\ [][(dialect = "sqlite" /\ pc[1] = "upgrade" /\ pc'[1] = "downgrade") =>
             LET c == DiffModels(Ctx, [d |-> "mysql", upgrade |-> TRUE, yes |-> {}],
                                 old_models, new_models)
             IN Confirmed(asked') = {} /\ NoneRefused(c.up) /\ NoneRefused(c.upfk)]_vars
    /\ [][(dialect = "sqlite" /\ pc[1] = "downgrade" /\ pc'[1] = "merge") =>
             LET c == DiffModels(Ctx, [d |-> "mysql", upgrade |-> FALSE, yes |-> {}],
                                 new_models, old_models)
             IN NoneRefused(c.down) /\ NoneRefused(c.downfk)]_vars
    /\ [][\A p \in Procs :
             /\ (pc[p] # "failed" /\ pc'[p] = "failed") => files' = files
             /\ pc[p] = "failed" => (pc'[p] \in {"failed", "idle"} /\ files' = files)]_vars

\* C9 witness: on SQLite an invocation failed with NotSupportError while an
\* artifact of an earlier invocation of the process is in place.
C9_Witness ==
    /\ dialect = "sqlite" /\ pc[1] = "failed"
    /\ Len(runs) = 2
    /\ runs[1].wrote /\ runs[2].err = "NotSupportError"
    /\ \E f \in files : f.version = runs[1].version

\* C10: on a dialect that supports every operation an invocation fails with
\* the length error of the version only, and on SQLite with that error or
\* NotSupportError only.
C10_DiffNeverFails ==
    \A i \in 1..Len(runs) :
        /\ runs[i].err \in {"none", "NotSupportError", "ValueError"}
        /\ runs[i].d # "sqlite" => runs[i].err \in {"none", "ValueError"}

\* The sequence number of the version the last Aerich row holds, read off
\* the artifact of that name; -1 without a row.
LastPersisted ==
    IF history = NoRow THEN -1
    ELSE (CHOOSE f \in files : VersionName(f.version) = history).version.num

\* C11: the version an invocation forms has sequence 0 and label "init"
\* when no version is persisted, whatever label was passed, and otherwise
\* the sequence of the last persisted version plus one and the label passed;
\* the text of the version begins with that number.
C11_GenerateVersion ==
    [][\A p \in Procs :
          (pc[p] = "write" /\ pc'[p] = "done") =>
              LET v == runs'[Len(runs')].version
              IN /\ runs'[Len(runs')].wrote
                 /\ IF LastPersisted = -1
                    THEN v.num = 0 /\ v.name = "init"
                    ELSE v.num = LastPersisted + 1 /\ v.name = local[p].name
                 /\ SplitFirst(VersionName(v)) = Str(v.num)
                 /\ \E f \in files' : f.version = v]_vars

\* C11 witness: a version was formed after sequence 9.
C11_Witness ==
    /\ history = VersionName(PriorNine.version)
    /\ \E i \in 1..Len(runs) :
          runs[i].wrote /\ runs[i].version.num = 10 /\ runs[i].version.name = "update"

\* The text f"{n}_{now}_{name}.json" for the label as it was passed.
Untruncated(n, now, name) ==
    Str(n) \o <<"_">> \o Stamp(now) \o <<"_">> \o Chars(name) \o <<".", "j", "s", "o", "n">>

\* C12: no artifact ever carries a version longer than MAX_VERSION_LENGTH;
\* an invocation whose version would be longer fails with the length error
\* on the step that forms it, writing nothing, and every other invocation
\* writes the version with the whole label it was passed.
C12_LengthErrorNoTruncation ==
    /\ [](\A f \in files : Len(VersionName(f.version)) <= MAX_VERSION_LENGTH)
    /\ [][\A p \in Procs :
             (pc[p] = "write" /\ pc'[p] # "write") =>
                 LET text == Untruncated(LastPersisted + 1, local[p].now, local[p].name)
                     r == runs'[Len(runs')]
                 IN IF LastPersisted # -1 /\ Len(text) > MAX_VERSION_LENGTH
                    THEN /\ pc'[p] = "failed" /\ r.err = "ValueError" /\ ~r.wrote
                         /\ files' = files
                    ELSE /\ pc'[p] = "done" /\ r.wrote
                         /\ LastPersisted # -1 => VersionName(r.version) = text
                         /\ \E f \in files' : f.version = r.version]_vars

\* C12 witness: one invocation wrote a version of exactly 255 characters and
\* the next, with one more letter in its label, failed with the length error.
C12_Witness ==
    /\ Len(runs) = 2
    /\ runs[1].wrote /\ Len(VersionName(runs[1].version)) = MAX_VERSION_LENGTH
    /\ runs[2].err = "ValueError" /\ local[1].name = Label234
    /\ \A f \in files : f.version.name # Label234

\* No field of a model is a foreign key in one set and another kind of field
\* in the other.
NoForeignKeyRetyped(olds, news) ==
    \A t \in TableNames : \A f \in FieldNames :
        (olds[t].fields[f].role = "fk" /\ news[t].fields[f].role # "absent")
            \/ (news[t].fields[f].role = "fk" /\ olds[t].fields[f].role # "absent")
            => olds[t].fields[f].role = news[t].fields[f].role

\* C13: an invocation that returns wrote an artifact exactly when one of its
\* two passes collected an operator, and no invocation wrote more than one
\* artifact.  Stated for model sets in which no foreign key is retyped.
C13_OneArtifactPerChange ==
    /\ \A i \in 1..Len(runs) :
          (runs[i].err = "none" /\ NoForeignKeyRetyped(runs[i].old, runs[i].new)) =>
              (runs[i].wrote <=> (runs[i].up # <<>> \/ runs[i].down # <<>>))
    /\ Cardinality(files) <= Cardinality({i \in 1..Len(runs) : runs[i].wrote})

\* The invocations that wrote an artifact and whose own two model sets, diffed
\* with fresh accumulators, give an upgrade operator.
Writers ==
    {i \in 1..Len(runs) :
        /\ runs[i].wrote
        /\ FreshRun(runs[i].old, runs[i].new, runs[i].d, Confirmed(runs[i].asked)).up # <<>>}

\* C14: of two invocations that wrote an artifact, the later one wrote the
\* greater sequence number, whether or not the Aerich table changed between them.
C14_SequenceStrictlyIncreasing ==
    \A i, j \in Writers : i < j => runs[i].version.num < runs[j].version.num

\* C15: after the process died inside _generate_diff_sql, whatever
\* get_all_version_files lists is an artifact that holds its complete
\* document, which has at least one upgrade statement (line 126).
C15_AtomicArtifactWrite ==
    (\A p \in Procs : pc[p] = "crashed") =>
        \A i \in 1..Len(listed) : \A f \in files :
            VersionName(f.version) = listed[i] => f.upgrade # <<>>

\* What each pass collected, before _merge_operators.
UpgradeAll == upgrade_operators \o upgrade_fk_m2m_index_operators

DowngradeAll == downgrade_operators \o downgrade_fk_m2m_index_operators

\* Everything but unique and indexed is equal.
SameButConstraints(o, n) ==
    /\ o.role = n.role /\ o.role # "absent"
    /\ o.null = n.null /\ o.default = n.default /\ o.description = n.description
    /\ o.through = n.through

\* One pass over olds and news with the operators ops it collected: a field
\* that differs in unique and indexed at most has no column statement, and
\* one that only became unique has exactly one AddIndex, a unique one.
ConstraintsOnly(olds, news, ops) ==
    \A t \in TableNames : \A f \in FieldNames :
        (olds[t].exists /\ news[t].exists
            /\ SameButConstraints(olds[t].fields[f], news[t].fields[f])) =>
            LET o == olds[t].fields[f]
                n == news[t].fields[f]
                col == ResolveFkFieldsName(news[t], <<f>>)
            IN /\ \A k \in {"ModifyColumn", "SetDefault", "SetNullable", "SetComment"} :
                     /\ Positions(ops, k, t, <<f>>) = {}
                     /\ Positions(ops, k, t, col) = {}
               /\ (n.unique /\ ~o.unique /\ n.index = o.index) =>
                     /\ Cardinality(Positions(ops, "AddIndex", t, col)) = 1
                     /\ \A i \in Positions(ops, "AddIndex", t, col) : ops[i].unique
                     /\ Positions(ops, "DropIndex", t, col) = {}

\* C16: in both passes, a field present on both sides that differs only in
\* unique and indexed gets no ModifyColumn, SetDefault, SetNullable or
\* SetComment, and one whose only difference is that it became unique gets
\* exactly one AddIndex, a unique one.
C16_ConstraintChangeNoModify ==
    pc[1] = "merge" =>
        /\ ConstraintsOnly(old_models, new_models, UpgradeAll)
        /\ ConstraintsOnly(new_models, old_models, DowngradeAll)

\* C16 witness: both passes ran on an indexed field that only became unique.
C16_Witness ==
    /\ pc[1] = "merge"
    /\ old_models["x"].exists /\ new_models["x"].exists
    /\ new_models["x"].fields["a"].unique /\ ~old_models["x"].fields["a"].unique
    /\ new_models["x"].fields["a"].index /\ old_models["x"].fields["a"].index
    /\ \E i \in 1..Len(UpgradeAll) : UpgradeAll[i].kind = "AddIndex" /\ UpgradeAll[i].unique

\* The answers of the oracle on table t that concern the old field o, and
\* those that concern the new field n.
AnswersOld(t, o) == {i \in 1..Len(asked) : asked[i].table = t /\ asked[i].old = o}

AnswersNew(t, n) == {i \in 1..Len(asked) : asked[i].table = t /\ asked[i].new = n}

Count(ops, kind, t, fields) == Cardinality(Positions(ops, kind, t, fields))

\* C17: when the upgrade pass completes, every pair the oracle confirmed has
\* exactly one RenameColumn old->new and no AddColumn or DropColumn for
\* either field; an old-only field whose candidates were all declined has one
\* DropColumn, a new-only field declined every time it was offered has one
\* AddColumn; the oracle is asked only about an old-only and a new-only field
\* of equal description, a confirmation ends the search for its old field,
\* and a confirmed new field is offered to no later old field.
C17_UpgradeRenamePolicy ==
    pc[1] = "downgrade" =>
        /\ \A i \in 1..Len(asked) :
              LET t == asked[i].table
                  o == asked[i].old
                  n == asked[i].new
              IN /\ asked[i].upgrade /\ <<t, o, n>> \in Prompts(old_models, new_models)
                 /\ asked[i].flag =>
                       /\ Count(UpgradeAll, "RenameColumn", t, <<o, n>>) = 1
                       /\ \A f \in {o, n} :
                             /\ Count(UpgradeAll, "AddColumn", t, <<f>>) = 0
                             /\ Count(UpgradeAll, "DropColumn", t, <<f>>) = 0
                       /\ \A j \in AnswersOld(t, o) \cup AnswersNew(t, n) : j <= i
                 /\ (\A j \in AnswersOld(t, o) : ~asked[j].flag) =>
                       /\ Count(UpgradeAll, "DropColumn", t, <<o>>) = 1
                       /\ \A f \in FieldNames :
                             Count(UpgradeAll, "RenameColumn", t, <<o, f>>) = 0
                 /\ (\A j \in AnswersNew(t, n) : ~asked[j].flag) =>
                       /\ Count(UpgradeAll, "AddColumn", t, <<n>>) = 1
                       /\ \A f \in FieldNames :
                             Count(UpgradeAll, "RenameColumn", t, <<f, n>>) = 0
        /\ \A i, j \in 1..Len(asked) :
              (i < j /\ asked[i].table = asked[j].table /\ asked[i].old = asked[j].old) =>
                  \E k, l \in 1..Len(FieldOrder) :
                      k < l /\ FieldOrder[k] = asked[i].new /\ FieldOrder[l] = asked[j].new

\* C17 witness: of two old-only fields and one new-only field of equal
\* description, the first was declined and dropped, the second renamed.
C17_Witness ==
    /\ pc[1] = "downgrade"
    /\ Len(asked) = 2
    /\ asked[1].table = "x" /\ asked[1].old = "a" /\ asked[1].new = "c" /\ ~asked[1].flag
    /\ asked[2].table = "x" /\ asked[2].old = "b" /\ asked[2].new = "c" /\ asked[2].flag
    /\ Count(UpgradeAll, "DropColumn", "x", <<"a">>) = 1
    /\ Count(UpgradeAll, "RenameColumn", "x", <<"b", "c">>) = 1

\* The sequence number of the artifact of that name.
SequenceOf(name, fs) == (CHOOSE f \in fs : VersionName(f.version) = name).version.num

\* C18: what get_all_version_files returns holds the name of every artifact
\* of the migrate location once, nothing else, in ascending order of the
\* artifacts' sequence numbers.
C18_VersionFilesBySequence ==
    [][(pc' = pc /\ listed' # listed) =>
          /\ {listed'[i] : i \in 1..Len(listed')} = {VersionName(f.version) : f \in files}
          /\ Len(listed') = Cardinality(files)
          /\ \A i, j \in 1..Len(listed') :
                i < j => SequenceOf(listed'[i], files) <= SequenceOf(listed'[j], files)]_vars

\* C18 witness: the artifacts of sequence 0, 9 and 10 were listed in that
\* order, although "10" precedes "9" as text.
C18_Witness ==
    /\ Len(listed) = 3
    /\ listed[1] = VersionName(PriorFile.version)
    /\ listed[2] = VersionName(PriorNine.version)
    /\ listed[3] = VersionName([num |-> 10, now |-> 0, name |-> "update"])

\* One pass over olds and news with the operators ops it collected: for a
\* plain field of both sides, a constraint the old side alone has is dropped
\* and one the new side alone has is added.
EachConstraint(olds, news, ops) ==
    \A t \in TableNames : \A f \in FieldNames :
        (olds[t].exists /\ news[t].exists
            /\ olds[t].fields[f].role = "plain" /\ news[t].fields[f].role = "plain") =>
            LET o == olds[t].fields[f]
                n == news[t].fields[f]
            IN /\ ((o.unique /\ ~n.unique) \/ (o.index /\ ~n.index)) =>
                     Positions(ops, "DropIndex", t, <<f>>) # {}
               /\ ((n.unique /\ ~o.unique) \/ (n.index /\ ~o.index)) =>
                     Positions(ops, "AddIndex", t, <<f>>) # {}

\* C19: in both passes, for every field of both models, unique and indexed
\* each on its own: a constraint only the old field has gets a DropIndex,
\* and a constraint only the new field has gets an AddIndex.
C19_ConstraintsIndependent ==
    pc[1] = "merge" =>
        /\ EachConstraint(old_models, new_models, UpgradeAll)
        /\ EachConstraint(new_models, old_models, DowngradeAll)

\* No model has a relation among its fields.
PlainFieldsOnly ==
    \A t \in TableNames : \A f \in FieldNames :
        /\ old_models[t].fields[f].role \in {"absent", "plain"}
        /\ new_models[t].fields[f].role \in {"absent", "plain"}

\* C20: after both passes over models of plain fields, the downgrade pass
\* holds a RenameColumn new->old for a model only if the oracle confirmed
\* old->new for that model in the upgrade pass of this run.
C20_DowngradeRenameOnlyConfirmed ==
    (pc[1] = "merge" /\ PlainFieldsOnly) =>
        \A t \in TableNames : \A o, n \in FieldNames :
            Positions(DowngradeAll, "RenameColumn", t, <<n, o>>) # {} =>
                \E i \in 1..Len(asked) :
                    /\ asked[i].upgrade /\ asked[i].flag
                    /\ asked[i].table = t /\ asked[i].old = o /\ asked[i].new = n

\* What a pass appended to a list.
Emitted(before, after) == SubSeq(after, Len(before) + 1, Len(after))

\* The join tables the many-to-many fields of the two model sets go through.
ThroughNames ==
    {m[t].fields[f].through :
        m \in {old_models, new_models}, t \in TableNames, f \in FieldNames} \ {"-"}

\* The many-to-many fields one pass over olds and news looks at, as
\* <<table, loop, field>> positions: loop 0 is the loop over the new keys,
\* loop 1 the loop over the old keys, which looks at old-only fields.
M2mVisits(olds, news) ==
    {v \in (1..Len(TableOrder)) \X {0, 1} \X (1..Len(FieldOrder)) :
        LET o == olds[TableOrder[v[1]]]
            n == news[TableOrder[v[1]]]
            f == FieldOrder[v[3]]
        IN /\ o.exists /\ n.exists
           /\ IF v[2] = 0 THEN n.fields[f].role = "m2m"
              ELSE o.fields[f].role = "m2m" /\ n.fields[f].role = "absent"}

VisitedField(olds, news, v) ==
    IF v[2] = 0 THEN news[TableOrder[v[1]]].fields[FieldOrder[v[3]]]
    ELSE olds[TableOrder[v[1]]].fields[FieldOrder[v[3]]]

Earlier(u, v) ==
    \/ u[1] < v[1]
    \/ u[1] = v[1] /\ u[2] < v[2]
    \/ u[1] = v[1] /\ u[2] = v[2] /\ u[3] < v[3]

\* The field at v was diffed: a new-only field was created or took a rename,
\* an old-only field was dropped or renamed.
Diffed(olds, news, ops, v) ==
    LET t == TableOrder[v[1]]
        f == FieldOrder[v[3]]
        th == VisitedField(olds, news, v).through
    IN IF v[2] = 0
       THEN olds[t].fields[f].role = "absent" =>
              \/ Positions(ops, "CreateJoinTable", t, <<th>>) # {}
              \/ \E g \in FieldNames : Positions(ops, "RenameColumn", t, <<g, f>>) # {}
       ELSE \/ Positions(ops, "DropJoinTable", t, <<th>>) # {}
            \/ \E g \in FieldNames : Positions(ops, "RenameColumn", t, <<f, g>>) # {}

\* One pass over olds and news that appended ops: no join table is created
\* twice or dropped twice, and the first many-to-many field of each join
\* table the pass looks at is diffed.
JoinTablesOnce(olds, news, ops) ==
    /\ \A th \in ThroughNames : \A k \in {"CreateJoinTable", "DropJoinTable"} :
          Cardinality({i \in 1..Len(ops) : ops[i].kind = k /\ ops[i].fields = <<th>>}) <= 1
    /\ \A v \in M2mVisits(olds, news) :
          (\A u \in M2mVisits(olds, news) :
              Earlier(u, v) =>
                  VisitedField(olds, news, u).through # VisitedField(olds, news, v).through)
            => Diffed(olds, news, ops, v)

\* C21: each pass that completes emits at most one CreateJoinTable and at
\* most one DropJoinTable per join table, and does not exclude a many-to-many
\* field whose join table it has not seen before.
C21_JoinTableOncePerPass ==
    [][/\ (pc[1] = "upgrade" /\ pc'[1] = "downgrade") =>
            JoinTablesOnce(old_models', new_models',
                Emitted(upgrade_operators, upgrade_operators')
                    \o Emitted(upgrade_fk_m2m_index_operators,
                               upgrade_fk_m2m_index_operators'))
       /\ (pc[1] = "downgrade" /\ pc'[1] = "merge") =>
            JoinTablesOnce(new_models, old_models,
                Emitted(downgrade_operators, downgrade_operators')
                    \o Emitted(downgrade_fk_m2m_index_operators,
                               downgrade_fk_m2m_index_operators'))]_vars

\* The operators of ops on table t.
OnTable(ops, t) == {i \in 1..Len(ops) : ops[i].table = t}

\* One completed pass over olds and news, the sets as they were handed over,
\* that appended ops: a table of news alone has its AddTable and nothing
\* else, a table of olds alone its DropTable and nothing else, a table of
\* both neither of the two and the AddColumn of diff_model for a plain field
\* that news alone has, and the history model has no operator.
TablesDiffed(olds, news, ops) ==
    /\ OnTable(ops, "Aerich") = {}
    /\ \A t \in TableNames \ {"Aerich"} :
          /\ (news[t].exists /\ ~olds[t].exists) =>
                /\ Count(ops, "AddTable", t, <<>>) = 1
                /\ Cardinality(OnTable(ops, t)) = 1
          /\ (olds[t].exists /\ ~news[t].exists) =>
                /\ Count(ops, "DropTable", t, <<>>) = 1
                /\ Cardinality(OnTable(ops, t)) = 1
          /\ (~olds[t].exists /\ ~news[t].exists) => OnTable(ops, t) = {}
          /\ (olds[t].exists /\ news[t].exists) =>
                /\ Count(ops, "AddTable", t, <<>>) = 0
                /\ Count(ops, "DropTable", t, <<>>) = 0
                /\ \A f \in FieldNames :
                      (/\ news[t].fields[f].role = "plain"
                       /\ \A g \in FieldNames :
                             olds[t].fields[g].role = "absent") =>
                          Count(ops, "AddColumn", t, <<f>>) = 1

\* C22: each call of diff_models that completes emits exactly one AddTable
\* for every table of the new set alone, exactly one DropTable for every
\* table of the old set alone, hands every table of both to diff_model, and
\* emits nothing for the Aerich model, whichever set holds it.
C22_DiffModelsTables ==
    [][/\ (pc[1] = "upgrade" /\ pc'[1] = "downgrade") =>
            TablesDiffed(old_models, new_models,
                Emitted(upgrade_operators, upgrade_operators')
                    \o Emitted(upgrade_fk_m2m_index_operators,
                               upgrade_fk_m2m_index_operators'))
       /\ (pc[1] = "downgrade" /\ pc'[1] = "merge") =>
            TablesDiffed(new_models, old_models,
                Emitted(downgrade_operators, downgrade_operators')
                    \o Emitted(downgrade_fk_m2m_index_operators,
                               downgrade_fk_m2m_index_operators'))]_vars

\* C22 witness: both passes ran on sets of which the new one alone held the
\* Aerich model and table "x", and the old one alone held table "ADDR".
C22_Witness ==
    /\ pc[1] = "merge"
    /\ local[1].had = <<FALSE, TRUE>>
    /\ Count(UpgradeAll, "AddTable", "x", <<>>) = 1
    /\ Count(UpgradeAll, "DropTable", "ADDR", <<>>) = 1
    /\ Count(DowngradeAll, "DropTable", "x", <<>>) = 1
    /\ Count(DowngradeAll, "AddTable", "ADDR", <<>>) = 1

Reverse(s) == [i \in 1..Len(s) |-> s[Len(s) + 1 - i]]

\* The final list of one direction: the referential operators without a
\* creation verb, last found first, then the ordinary operators, then the
\* referential operators with a creation verb, first found first.
Merged(ordinary, referential, final) ==
    final = Reverse(SelectSeq(referential, LAMBDA op : ~HasCreationVerb(op)))
                \o ordinary \o SelectSeq(referential, HasCreationVerb)

\* C23: in an invocation that began with empty accumulators,
\* _merge_operators leaves in each direction every ordinary and every
\* referential operator once: the referential operators without ADD or
\* CREATE at the front in the reverse of the order they were found, the
\* ordinary ones, then those with ADD or CREATE in the order they were found.
C23_MergeKeepsEveryOperator ==
    [][(pc[1] = "merge" /\ pc'[1] = "merged") =>
          /\ Merged(upgrade_operators, upgrade_fk_m2m_index_operators, upgrade_operators')
          /\ Merged(downgrade_operators, downgrade_fk_m2m_index_operators,
                    downgrade_operators')]_vars

\* C23 witness: a merged downgrade list that begins with two referential
\* operators without a creation verb, the one found second first.
C23_Witness ==
    /\ pc[1] = "merged"
    /\ \E i, j \in 1..Len(downgrade_fk_m2m_index_operators) :
          /\ i < j
          /\ ~HasCreationVerb(downgrade_fk_m2m_index_operators[i])
          /\ ~HasCreationVerb(downgrade_fk_m2m_index_operators[j])
          /\ downgrade_fk_m2m_index_operators[i] # downgrade_fk_m2m_index_operators[j]
          /\ Len(downgrade_operators) >= 3
          /\ downgrade_operators[1] = downgrade_fk_m2m_index_operators[j]
          /\ downgrade_operators[2] = downgrade_fk_m2m_index_operators[i]

====
